---- MODULE Spec2Model ----
(***************************************************************************)
(* Model of the NBP exchange-rate service: the fetch-and-save cycle        *)
(* (NbpFetcher, CsvConverter, fetch_nbp_api, the standalone nbp_api.py     *)
(* script) and the four HTTP routes reading all_currency_data.csv.         *)
(*                                                                         *)
(* Dates are day numbers (the "%Y-%m-%d" text of a day is determined by    *)
(* the day and determines it).  Rates are integers counting                *)
(* ten-thousandths, so that round(x, 4) is exact integer arithmetic.       *)
(***************************************************************************)
EXTENDS Integers, Sequences, FiniteSets, TLC

\* ---------------------------------------------------------------- bounds
\* Largest days_to_start / days_to_end a caller hands to CsvConverter.
MaxOffset == 2
\* Mid rates are 0 and 2 .. MaxMid whole PLN.
MaxMid == 3
\* Number of fetch-and-save cycles (converter constructions) explored.
MaxCycles == 2
\* Number of distinct upstream data sets a complete cycle can see.
MaxVariant == 2
\* The day "datetime.now()" falls on.
Now == 0
\* days_to_start of fetch_nbp_api and of the script (90 in the source),
\* scaled down to keep the table small.
FetchDaysToStart == 2

\* -------------------------------------------------------- program values
\* days_to_end of fetch_nbp_api and of the script.
FetchDaysToEnd == 0
\* round(4): four decimals.
Scale == 10000
\* pandas' missing value (left join without a match, empty csv cell).
NaN == -1
\* x / 0.0 for x > 0 in a float column.
Inf == -2
\* The text written for NaN by to_csv: an empty cell.
EmptyCell == -3

DateCol == "Date"
KeyOrder == <<"EUR/PLN", "USD/PLN", "CHF/PLN">>
Keys == {KeyOrder[i] : i \in 1..Len(KeyOrder)}
Derived == <<"EUR/USD", "CHF/USD">>

Mids == {0} \cup {m * Scale : m \in 2..MaxMid}

VARIABLES
    file,        \* all_currency_data.csv
    selected,    \* selected_currency_data.csv
    converter,   \* a CsvConverter a caller holds, save_rates() not yet called
    out,         \* the last operation: its response, log line or exception,
                 \* the converter it ran on and the table it built
    cycles       \* fetch-and-save cycles run so far

vars == <<file, selected, converter, out, cycles>>

\* ------------------------------------------------------------ sequences
RECURSIVE Flatten(_)
Flatten(ss) == IF ss = <<>> THEN <<>> ELSE Head(ss) \o Flatten(Tail(ss))

Range(s) == {s[i] : i \in 1..Len(s)}

Contains(s, x) == \E i \in 1..Len(s) : s[i] = x

\* ---------------------------------------------------------------- tables
\* A DataFrame / csv file: column names in order, rows as functions
\* from the column names to values.
NoTable == [exists |-> FALSE, columns |-> <<>>, rows |-> <<>>]

Table(cols, rows) == [exists |-> TRUE, columns |-> cols, rows |-> rows]

\* DataFrame.to_csv(index=False): NaN is written as an empty cell.
to_csv(t) ==
    Table(t.columns,
          [i \in 1..Len(t.rows) |->
              [c \in DOMAIN t.rows[i] |->
                  IF t.rows[i][c] = NaN THEN EmptyCell ELSE t.rows[i][c]]])

\* pd.read_csv: an empty cell is read as NaN.
read_csv(f) ==
    Table(f.columns,
          [i \in 1..Len(f.rows) |->
              [c \in DOMAIN f.rows[i] |->
                  IF f.rows[i][c] = EmptyCell THEN NaN ELSE f.rows[i][c]]])

\* pd.concat([a, b]): a's columns, then b's new ones; a's rows, then b's;
\* a cell of a column the row's table does not have is NaN.
concat(a, b) ==
    LET cols == a.columns \o SelectSeq(b.columns, LAMBDA c : ~Contains(a.columns, c))
        Widen(r) == [c \in Range(cols) |-> IF c \in DOMAIN r THEN r[c] ELSE NaN]
        all == a.rows \o b.rows
    IN Table(cols, [i \in 1..Len(all) |-> Widen(all[i])])

\* The rows from position i on whose date does not occur again further down.
RECURSIVE LastOfDate(_, _)
LastOfDate(rows, i) ==
    IF i > Len(rows) THEN <<>>
    ELSE (IF \A j \in (i + 1)..Len(rows) : rows[j][DateCol] # rows[i][DateCol]
          THEN <<rows[i]>> ELSE <<>>) \o LastOfDate(rows, i + 1)

\* DataFrame.drop_duplicates(subset=["Date"], keep="last")
drop_duplicates(t) == Table(t.columns, LastOfDate(t.rows, 1))

\* ------------------------------------------------------------ arithmetic
\* numpy's round: to the nearest, a tie to the even neighbour.
RoundHalfEven(n, d) ==
    LET q == n \div d
        r == n % d
    IN IF 2 * r < d THEN q
       ELSE IF 2 * r > d THEN q + 1
       ELSE IF q % 2 = 0 THEN q ELSE q + 1

\* The ratio cut off after four decimals instead of rounded.
Ratio_truncated(a, b) ==
    IF a = NaN \/ b = NaN THEN NaN
    ELSE IF b = 0 THEN (IF a = 0 THEN NaN ELSE Inf)
    ELSE (a * Scale) \div b

\* (a / b).round(4) on float columns: NaN propagates, x / 0 is inf, 0 / 0 NaN.
Ratio(a, b) ==
    IF a = NaN \/ b = NaN THEN NaN
    ELSE IF b = 0 THEN (IF a = 0 THEN NaN ELSE Inf)
    ELSE RoundHalfEven(a * Scale, b)

\* ---------------------------------------------------------- CsvConverter
NoConverter ==
    [made |-> FALSE, class |-> "none", exchange_rates |-> <<>>,
     days_to_start |-> 0, days_to_end |-> 0]

CsvConverter(class, exchange_rates, days_to_start, days_to_end) ==
    [made |-> TRUE, class |-> class, exchange_rates |-> exchange_rates,
     days_to_start |-> days_to_start, days_to_end |-> days_to_end]

\* NbpFetcher.format_date
format_date(days_delta) == Now - days_delta

\* The range started at days_to_start: the whole fetch window.
DaysRange_inclusive(self) ==
    LET n == IF self.days_to_start >= self.days_to_end
             THEN self.days_to_start - self.days_to_end + 1 ELSE 0
    IN [k \in 1..n |-> self.days_to_start - k + 1]

\* range(days_to_start - 1, days_to_end - 1, -1)
DaysRange(self) ==
    LET n == IF self.days_to_start > self.days_to_end
             THEN self.days_to_start - self.days_to_end ELSE 0
    IN [k \in 1..n |-> self.days_to_start - k]

get_dates_column(self) ==
    LET r == DaysRange(self)
    IN [k \in 1..Len(r) |-> format_date(r[k])]

\* pd.merge(df, rates_df, how="left", left_on="Date", right_on="effectiveDate"):
\* for each date in turn its matching observations' mids, NaN without one.
merge(dates, value) ==
    LET match(d) == SelectSeq(value, LAMBDA o : o.effectiveDate = d)
    IN Flatten([k \in 1..Len(dates) |->
                   IF match(dates[k]) = <<>> THEN <<NaN>>
                   ELSE [j \in 1..Len(match(dates[k])) |-> match(dates[k])[j].mid]])

\* The keys of exchange_rates in iteration order.
items(exchange_rates) == SelectSeq(KeyOrder, LAMBDA k : k \in DOMAIN exchange_rates)

\* The first column calculate_rates looks up and does not find.
MissingKey(cols) ==
    IF ~Contains(cols, "EUR/PLN") THEN "EUR/PLN"
    ELSE IF ~Contains(cols, "USD/PLN") THEN "USD/PLN"
    ELSE IF ~Contains(cols, "CHF/PLN") THEN "CHF/PLN"
    ELSE ""

calculate_rates(t) ==
    Table(t.columns \o Derived,
          [i \in 1..Len(t.rows) |->
              [c \in Range(t.columns) \cup Range(Derived) |->
                  IF c = "EUR/USD" THEN Ratio(t.rows[i]["EUR/PLN"], t.rows[i]["USD/PLN"])
                  ELSE IF c = "CHF/USD" THEN Ratio(t.rows[i]["CHF/PLN"], t.rows[i]["USD/PLN"])
                  ELSE t.rows[i][c]]])

\* create_rates_df: the table, or the KeyError that escapes it.
create_rates_df(self) ==
    LET dates == get_dates_column(self)
        keys == items(self.exchange_rates)
        col == [k \in Range(keys) |-> merge(dates, self.exchange_rates[k])]
        cols == <<DateCol>> \o keys
        joined == Table(cols,
                        [i \in 1..Len(dates) |->
                            [c \in Range(cols) |->
                                IF c = DateCol THEN dates[i] ELSE col[c][i]]])
    IN IF \E k \in Range(keys) : self.exchange_rates[k] = <<>>
       THEN [raised |-> "KeyError", key |-> "effectiveDate", df |-> NoTable]
       ELSE IF MissingKey(cols) # ""
       THEN [raised |-> "KeyError", key |-> MissingKey(cols), df |-> NoTable]
       ELSE [raised |-> "", key |-> "", df |-> calculate_rates(joined)]

\* What save_rates does to the file once the table is built.
\*   "dedup"     backend/src/utils/csv_converting.py
\*   "concat"    backend/nbp_api.py
\*   "overwrite" nbp_api.py
Persist(policy, f, t) ==
    IF policy = "overwrite" \/ ~f.exists THEN to_csv(t)
    ELSE IF policy = "concat" THEN to_csv(concat(read_csv(f), t))
    ELSE to_csv(drop_duplicates(concat(read_csv(f), t)))

Policy(class) ==
    IF class = "utils" THEN "dedup" ELSE IF class = "backend" THEN "concat" ELSE "overwrite"

LogNothing == "No exchange rates to save"
LogSaved == "Data saved to all_currency_data.csv successfully."
LogSaveError == "Error while saving data to all_currency_data.csv"

\* save_rates without its check for an empty exchange_rates.
save_rates_unguarded(self, f, disk_ok) ==
    LET built == create_rates_df(self)
    IN IF built.raised # ""
       THEN [file |-> f, df |-> NoTable, raised |-> built.raised, key |-> built.key,
             log |-> ""]
       ELSE IF ~disk_ok
       THEN [file |-> f, df |-> built.df, raised |-> "", key |-> "", log |-> LogSaveError]
       ELSE [file |-> Persist(Policy(self.class), f, built.df), df |-> built.df,
             raised |-> "", key |-> "", log |-> LogSaved]

\* save_rates of the three CsvConverter classes; disk_ok is whether the
\* file system lets the read and the write through.
save_rates(self, f, disk_ok) ==
    LET built == create_rates_df(self)
    IN IF self.exchange_rates = <<>>
       THEN [file |-> f, df |-> NoTable, raised |-> "", key |-> "", log |-> LogNothing]
       ELSE IF built.raised # ""
       THEN [file |-> f, df |-> NoTable, raised |-> built.raised, key |-> built.key,
             log |-> ""]
       ELSE IF ~disk_ok
       THEN [file |-> f, df |-> built.df, raised |-> "", key |-> "", log |-> LogSaveError]
       ELSE [file |-> Persist(Policy(self.class), f, built.df), df |-> built.df,
             raised |-> "", key |-> "", log |-> LogSaved]

\* ------------------------------------------------------------- outcomes
Outcome(op, status, message, named, raised, read, log) ==
    [op |-> op, status |-> status, message |-> message, named |-> named,
     raised |-> raised, read |-> read, log |-> log, request |-> "", columns |-> <<>>,
     self |-> NoConverter, df |-> NoTable]

NoOutcome == Outcome("", 0, "", {}, "", FALSE, "")

\* The outcome with the request it answers.
Respond(o, kind, columns) == [o EXCEPT !.request = kind, !.columns = columns]

\* CsvConverter.save_rates() on the converter self: the file afterwards,
\* and what was logged, raised and built.
SaveRates(op, self, disk_ok) ==
    LET r == save_rates(self, file, disk_ok)
    IN /\ file' = r.file
       /\ out' = [Outcome(op, 0, "", IF r.key = "" THEN {} ELSE {r.key},
                          r.raised, FALSE, r.log)
                     EXCEPT !.self = self, !.df = r.df]

\* --------------------------------------------- CsvConverter of src/utils
\* save_rates() on the converter held.
CsvConverter_save_rates(disk_ok) ==
    /\ converter.made
    /\ SaveRates("save_rates", converter, disk_ok)
    /\ UNCHANGED <<selected, converter, cycles>>

\* CsvConverter(exchange_rates, fetch_config).save_rates()
CsvConverter_cycle(exchange_rates, days_to_start, days_to_end, disk_ok) ==
    /\ cycles < MaxCycles
    /\ cycles' = cycles + 1
    /\ SaveRates("save_rates",
                 CsvConverter("utils", exchange_rates, days_to_start, days_to_end),
                 disk_ok)
    /\ UNCHANGED <<selected, converter>>

\* ------------------------------------------------------------ NbpFetcher
\* What requests.get / response.json() give for one request.
\*   network_error  requests.get raises (a RequestException)
\*   http_error     a 4xx/5xx status: raise_for_status raises HTTPError
\*   not_200        a status below 400 other than 200
\*   non_json       status 200, response.json() raises (a ValueError)
\*   no_rates       status 200, a JSON object without "rates"
\*   ok             status 200, a JSON object with a "rates" list
FailureKinds == {"network_error", "http_error", "not_200", "non_json", "no_rates"}

Response(kind, rates) == [kind |-> kind, rates |-> rates]

LogUnable == "Error: Unable to fetch data"
LogRequest == "An error occurred on the API request"
LogJson == "Error parsing JSON response"
LogAny == "An error occurred"

\* NbpFetcher.fetch of backend/nbp_api.py: the list, None (no list) or the
\* exception that escapes.
fetch(response) ==
    IF response.kind = "ok"
    THEN [raised |-> "", none |-> FALSE, rates |-> response.rates, log |-> ""]
    ELSE IF response.kind = "not_200"
    THEN [raised |-> "", none |-> TRUE, rates |-> <<>>, log |-> LogUnable]
    ELSE IF response.kind \in {"network_error", "http_error"}
    THEN [raised |-> "", none |-> TRUE, rates |-> <<>>, log |-> LogRequest]
    ELSE IF response.kind = "non_json"
    THEN [raised |-> "", none |-> TRUE, rates |-> <<>>, log |-> LogJson]
    ELSE [raised |-> "KeyError", none |-> FALSE, rates |-> <<>>, log |-> ""]

\* NbpFetcher.fetch of nbp_api.py: except Exception.
fetch_script(response) ==
    IF response.kind = "ok"
    THEN [raised |-> "", none |-> FALSE, rates |-> response.rates, log |-> ""]
    ELSE IF response.kind = "not_200"
    THEN [raised |-> "", none |-> TRUE, rates |-> <<>>, log |-> LogUnable]
    ELSE [raised |-> "", none |-> TRUE, rates |-> <<>>, log |-> LogAny]

\* The loop over currency_to_fetch: fetched_rates holds the truthy results.
Fetched(results) ==
    [k \in {KeyOrder[i] : i \in {j \in 1..Len(KeyOrder) : results[j].rates # <<>>}} |->
        results[CHOOSE i \in 1..Len(KeyOrder) : KeyOrder[i] = k].rates]

Raised(results) == \E i \in 1..Len(results) : results[i].raised # ""

\* The fetch loop followed by CsvConverter(...).save_rates(), for the
\* class and the fetch of one of the two nbp_api.py files.
Cycle(op, class, results, disk_ok) ==
    /\ cycles < MaxCycles
    /\ cycles' = cycles + 1
    /\ IF Raised(results)
       THEN /\ out' = Outcome(op, 0, "", {"rates"}, "KeyError", FALSE, "")
            /\ UNCHANGED file
       ELSE SaveRates(op, CsvConverter(class, Fetched(results),
                                       FetchDaysToStart, FetchDaysToEnd), disk_ok)
    /\ UNCHANGED <<selected, converter>>

\* fetch_nbp_api() of backend/nbp_api.py
fetch_nbp_api(responses, disk_ok) ==
    Cycle("fetch_nbp_api", "backend",
          [i \in 1..Len(KeyOrder) |-> fetch(responses[i])], disk_ok)

\* Running nbp_api.py: its module-level fetch and save.
nbp_api(responses, disk_ok) ==
    Cycle("nbp_api", "script",
          [i \in 1..Len(KeyOrder) |-> fetch_script(responses[i])], disk_ok)

\* ---------------------------------------------------------------- routes
\* read_file(file_path): the table, or None without a readable file.
read_file(f) == IF f.exists THEN read_csv(f) ELSE NoTable

\* get_currencies_list(df): the columns but the date.
get_currencies_list(t) == SelectSeq(t.columns, LAMBDA c : c # DateCol)

MsgLoadError == "Error loading exchange rates"
MsgNoCurrencies == "No currencies to query received"
MsgRead == "CSV file read successfully"
MsgQueried == "CSV file queried successfully"
MsgAnalyzed == "Data analyzed successfully"
MsgSaved == "Exchange rates saved successfully to selected_currency_data.csv"
MsgSaveError == "Error while saving exchange rates"
MsgIncorrect == "Incorrect request"

get_currency_types ==
    /\ out' = IF ~read_file(file).exists
              THEN Outcome("get_currency_types", 500, MsgLoadError, {}, "", TRUE, "")
              ELSE Outcome("get_currency_types", 200, MsgRead,
                           Range(get_currencies_list(read_file(file))), "", TRUE, "")
    /\ UNCHANGED <<file, selected, converter, cycles>>

\* The route reading the file before it looks at the parameter.
Query_read_first(op, requested_currencies, message, named) ==
    IF ~read_file(file).exists
    THEN Respond(Outcome(op, 500, MsgLoadError, {}, "", TRUE, ""),
                 "", requested_currencies)
    ELSE IF requested_currencies = <<>>
    THEN Respond(Outcome(op, 404, MsgNoCurrencies, {}, "", TRUE, ""),
                 "", requested_currencies)
    ELSE Respond(Outcome(op, 200, message, named, "", TRUE, ""),
                 "", requested_currencies)

\* A GET route taking ?currencies=...: the check of the parameter, then
\* the read.
Query(op, requested_currencies, message, named) ==
    IF requested_currencies = <<>>
    THEN Respond(Outcome(op, 404, MsgNoCurrencies, {}, "", FALSE, ""),
                 "", requested_currencies)
    ELSE IF ~read_file(file).exists
    THEN Respond(Outcome(op, 500, MsgLoadError, {}, "", TRUE, ""),
                 "", requested_currencies)
    ELSE Respond(Outcome(op, 200, message, named, "", TRUE, ""),
                 "", requested_currencies)

get_exchange_rates(requested_currencies) ==
    /\ out' = Query("get_exchange_rates", requested_currencies, MsgQueried,
                    Range(requested_currencies))
    /\ UNCHANGED <<file, selected, converter, cycles>>

\* df.filter(requested_currencies) keeps the requested columns that exist.
analyze_data(requested_currencies) ==
    /\ out' = Query("analyze_data", requested_currencies, MsgAnalyzed,
                    Range(requested_currencies) \cap Range(file.columns))
    /\ UNCHANGED <<file, selected, converter, cycles>>

\* df.filter(currency_pairs) in place of df[currency_pairs]: the asked-for
\* columns that exist, never an error.
Selection_lenient(t, currency_pairs) ==
    LET cols == SelectSeq(currency_pairs, LAMBDA c : Contains(t.columns, c))
    IN [raised |-> "", named |-> {},
        df |-> Table(cols, [i \in 1..Len(t.rows) |->
                               [c \in Range(cols) |-> t.rows[i][c]]])]

\* df[currency_pairs]: the columns picked in the order asked for, or the
\* KeyError naming the absent ones.
Selection(t, currency_pairs) ==
    LET absent == Range(currency_pairs) \ Range(t.columns)
    IN IF absent # {}
       THEN [raised |-> "KeyError", named |-> absent, df |-> NoTable]
       ELSE [raised |-> "", named |-> {},
             df |-> Table(currency_pairs,
                          [i \in 1..Len(t.rows) |->
                              [c \in Range(currency_pairs) |-> t.rows[i][c]]])]

\* filtered_df.to_csv(path): the index column first.
to_csv_index(t) ==
    to_csv(Table(<<"">> \o t.columns,
                 [i \in 1..Len(t.rows) |->
                     [c \in {""} \cup Range(t.columns) |->
                         IF c = "" THEN i - 1 ELSE t.rows[i][c]]]))

\* A POST body.
\*   not_json   request.is_json is false
\*   bad_json   a JSON content type, get_json() raises BadRequest
\*   no_field   JSON without "currency_pairs": KeyError
\*   ok         JSON with a currency_pairs list
Body(kind, currency_pairs) == [kind |-> kind, currency_pairs |-> currency_pairs]

save_exchange_rates(body) ==
    LET op == "save_exchange_rates"
        t == read_file(file)
        picked == Selection(t, body.currency_pairs)
        answer(o) == Respond(o, body.kind, body.currency_pairs)
    IN IF body.kind = "not_json"
       THEN /\ out' = answer(Outcome(op, 400, MsgIncorrect, {}, "", FALSE, ""))
            /\ UNCHANGED <<file, selected, converter, cycles>>
       ELSE IF body.kind = "bad_json"
       THEN /\ out' = answer(Outcome(op, 500, MsgSaveError, {}, "", FALSE, ""))
            /\ UNCHANGED <<file, selected, converter, cycles>>
       ELSE IF body.kind = "no_field"
       THEN /\ out' = answer(Outcome(op, 500, MsgSaveError, {"currency_pairs"}, "",
                                     FALSE, ""))
            /\ UNCHANGED <<file, selected, converter, cycles>>
       ELSE IF ~t.exists
       THEN /\ out' = answer(Outcome(op, 500, MsgLoadError, {}, "", TRUE, ""))
            /\ UNCHANGED <<file, selected, converter, cycles>>
       ELSE IF picked.raised # ""
       THEN /\ out' = answer(Outcome(op, 500, MsgSaveError, picked.named, "", TRUE, ""))
            /\ UNCHANGED <<file, selected, converter, cycles>>
       ELSE /\ selected' = to_csv_index(picked.df)
            /\ out' = answer(Outcome(op, 200, MsgSaved, Range(body.currency_pairs), "",
                                     TRUE, ""))
            /\ UNCHANGED <<file, converter, cycles>>

\* ------------------------------------------------------- inputs: series
\* The fetch window format_date(days_to_start) .. format_date(days_to_end).
WindowDates(s, e) == format_date(s)..format_date(e)

Obs(d, m) == [effectiveDate |-> d, mid |-> m]

RECURSIVE Ascending(_, _, _)
Ascending(lo, hi, m) ==
    IF lo > hi THEN <<>> ELSE <<Obs(lo, m)>> \o Ascending(lo + 1, hi, m)

\* One observation anywhere in the window, one a day at the top rate, or
\* the first day of the table observed twice.
BuildSeries(s, e) ==
    {<<Obs(d, m)>> : d \in WindowDates(s, e), m \in Mids}
        \cup {Ascending(format_date(s), format_date(e), MaxMid * Scale)}
        \cup {<<Obs(format_date(s - 1), MaxMid * Scale), Obs(format_date(s - 1), 0)>>}

Offsets == 0..MaxOffset

\* Every map over a subset of the keys.
Maps(series) ==
    UNION {[ks -> series] : ks \in SUBSET Keys}

\* Converters over every window of at least one day.
BuildConverters ==
    UNION {{CsvConverter("utils", x, w[1], w[2]) : x \in Maps(BuildSeries(w[1], w[2]))}
              : w \in {v \in Offsets \X Offsets : v[1] > v[2]}}

\* What the rates API publishes for currency i in its data set v: no rate
\* every third day, a rate of 0 .. MaxMid PLN otherwise.
Published(i, d, v) ==
    IF (d + v + 3 * (MaxOffset + FetchDaysToStart)) % 3 = 0 THEN <<>>
    ELSE <<Obs(d, Scale * ((i + d + v + 3 * (MaxOffset + FetchDaysToStart))
                              % (MaxMid + 1)))>>

RatesList(i, s, e, v) ==
    Flatten([k \in 1..(IF s >= e THEN s - e + 1 ELSE 0) |->
                Published(i, format_date(s) + k - 1, v)])

Variants == 1..MaxVariant

\* The three responses of one cycle: all fine; the second failing in
\* each way or empty, the first or the last unreachable; none reachable,
\* or all empty.
CycleResponses ==
    LET s == FetchDaysToStart
        e == FetchDaysToEnd
        n == Len(KeyOrder)
        fine(i, v) == Response("ok", RatesList(i, s, e, v))
        down == Response("network_error", <<>>)
    IN {[i \in 1..n |-> fine(i, v)] : v \in Variants}
        \cup {[i \in 1..n |-> IF i = 2 THEN Response(k, <<>>) ELSE fine(i, 1)]
                 : k \in FailureKinds \cup {"ok"}}
        \cup {[i \in 1..n |-> IF i = j THEN down ELSE fine(i, 1)] : j \in {1, n}}
        \cup {[i \in 1..n |-> b] : b \in {down, Response("ok", <<>>)}}

\* The windows handed to the utils CsvConverter: that of fetch_nbp_api,
\* its last days and its first day alone.
Windows ==
    {<<FetchDaysToStart, FetchDaysToEnd>>, <<FetchDaysToStart - 1, FetchDaysToEnd>>,
     <<FetchDaysToStart, FetchDaysToStart - 1>>}

\* The maps handed to it: every key with the data set v, a key left out,
\* a key with an empty list, or no key.
CycleMaps(s, e) ==
    LET full(v) == [k \in Keys |->
                       RatesList(CHOOSE i \in 1..Len(KeyOrder) : KeyOrder[i] = k, s, e, v)]
    IN {full(v) : v \in Variants}
        \cup {[k \in Keys \ {"USD/PLN"} |-> full(1)[k]]}
        \cup {[k \in Keys |-> IF k = "CHF/PLN" THEN <<>> ELSE full(1)[k]]}
        \cup {<<>>}

Requested == {<<>>, <<"USD/PLN", "NONEXISTENT">>}

Bodies ==
    {Body(k, <<>>) : k \in {"not_json", "bad_json", "no_field"}}
        \cup {Body("ok", p) : p \in {<<"EUR/PLN">>, <<"EUR/PLN", "NONEXISTENT">>,
                                     <<"NONEXISTENT">>}}

\* --------------------------------------------- specification: the service
Init ==
    /\ file = NoTable
    /\ selected = NoTable
    /\ converter = NoConverter
    /\ out = NoOutcome
    /\ cycles = 0

Next ==
    \/ \E w \in Windows, disk_ok \in BOOLEAN :
          \E x \in CycleMaps(w[1], w[2]) : CsvConverter_cycle(x, w[1], w[2], disk_ok)
    \/ \E r \in CycleResponses, disk_ok \in BOOLEAN : fetch_nbp_api(r, disk_ok)
    \/ \E r \in CycleResponses, disk_ok \in BOOLEAN : nbp_api(r, disk_ok)
    \/ get_currency_types
    \/ \E q \in Requested : get_exchange_rates(q)
    \/ \E q \in Requested : analyze_data(q)
    \/ \E b \in Bodies : save_exchange_rates(b)

Spec == Init /\ [][Next]_vars

\* ------------------------------------------- specification: one converter
\* A converter over a window of at least one day and any map of short
\* series, held by its caller; no file written yet.
InitBuild ==
    /\ file = NoTable
    /\ selected = NoTable
    /\ converter \in BuildConverters
    /\ out = NoOutcome
    /\ cycles = 1

NextBuild == \E disk_ok \in BOOLEAN : CsvConverter_save_rates(disk_ok)

SpecBuild == InitBuild /\ [][NextBuild]_vars

\* ---------------------------------------------------------------- claims
CycleOps == {"save_rates", "fetch_nbp_api", "nbp_api"}

DateSet(t) == {t.rows[i][DateCol] : i \in 1..Len(t.rows)}

RowsOn(t, d) == SelectSeq(t.rows, LAMBDA r : r[DateCol] = d)

\* C1: after any sequence of fetch-and-save cycles the persisted table
\* never contains two rows with the same Date.
C1_NoTwoRowsShareADate ==
    file.exists =>
        \A i, j \in 1..Len(file.rows) :
            i # j => file.rows[i][DateCol] # file.rows[j][DateCol]

\* The table res is the union of old and new keyed by Date, new winning:
\* the dates of both, one row per date of new holding new's values, the
\* rows of old for the other dates, and new itself when there was no old.
RightBiasedUnion(old, new, res) ==
    LET widened(r) == [c \in Range(res.columns) |-> IF c \in DOMAIN r THEN r[c] ELSE NaN]
        wide(rows) == [i \in 1..Len(rows) |-> widened(rows[i])]
    IN /\ DateSet(res) = DateSet(old) \cup DateSet(new)
       /\ \A d \in DateSet(new) : RowsOn(res, d) = wide(RowsOn(new, d))
       /\ \A d \in DateSet(old) \ DateSet(new) : RowsOn(res, d) = wide(RowsOn(old, d))
       /\ ~old.exists => res = new

\* C2: a successful save_rates persists the right-biased union, keyed by
\* Date, of the previously persisted table and the newly built one.
C2_SaveIsRightBiasedUnion ==
    [][(out'.op \in CycleOps /\ out'.log = LogSaved)
          => RightBiasedUnion(read_file(file), out'.df, read_file(file'))]_vars

\* C3: with an empty exchange_rates, save_rates logs that there is nothing
\* to save and returns: no table is built, no exception raised, and the
\* persisted file and the export file are what they were.
C3_EmptyMapTouchesNothing ==
    [][(out'.op \in CycleOps /\ out'.self.made /\ out'.self.exchange_rates = <<>>)
          => /\ file' = file
             /\ selected' = selected
             /\ out'.df = NoTable
             /\ out'.raised = ""
             /\ out'.log = LogNothing]_vars

\* An empty cycle run over an existing file, which is still there.
C3_Witness ==
    /\ out.op \in {"fetch_nbp_api", "nbp_api"}
    /\ out.self.made
    /\ out.self.exchange_rates = <<>>
    /\ out.log = LogNothing
    /\ file.exists
    /\ Len(file.rows) > 0

Partial(exchange_rates) ==
    DOMAIN exchange_rates # {} /\ DOMAIN exchange_rates # Keys

\* C4: a cycle in which some but not all currencies were fetched ends in a
\* reported outcome (saved, or the failure logged); no exception escapes.
C4_PartialCycleIsTolerated ==
    (/\ out.op \in {"fetch_nbp_api", "nbp_api"}
     /\ out.self.made
     /\ Partial(out.self.exchange_rates))
        => (out.raised = "" /\ out.log \in {LogSaved, LogSaveError})

\* C5: NbpFetcher.fetch never raises: no cycle ends with the KeyError of
\* data["rates"] escaping the fetch loop.
C5_FetchNeverRaises ==
    out.op \in {"fetch_nbp_api", "nbp_api"}
        => ~(out.raised = "KeyError" /\ out.named = {"rates"})

\* C6: an export request naming a column the persisted table does not
\* have is answered with an error naming the absent columns, and leaves
\* the export file (and the persisted table) as it was.
C6_ExportOfUnknownColumnFails ==
    [][(/\ out'.op = "save_exchange_rates"
        /\ out'.request = "ok"
        /\ file.exists
        /\ Range(out'.columns) \ Range(file.columns) # {})
          => /\ out'.status >= 400
             /\ out'.message = MsgSaveError
             /\ out'.named = Range(out'.columns) \ Range(file.columns)
             /\ selected' = selected
             /\ file' = file]_vars

\* EUR/PLN with NONEXISTENT refused, an earlier export still in place.
C6_Witness ==
    /\ out.op = "save_exchange_rates"
    /\ out.columns = <<"EUR/PLN", "NONEXISTENT">>
    /\ out.status = 500
    /\ out.named = {"NONEXISTENT"}
    /\ file.exists
    /\ selected.exists

\* C7: a malformed export request (no JSON body, or JSON without
\* currency_pairs) is answered with a 4xx status.
C7_MalformedIsClientError ==
    (out.op = "save_exchange_rates" /\ out.request \in {"not_json", "bad_json", "no_field"})
        => out.status \in 400..499

\* C8: get_exchange_rates and analyze_data without currencies answer 404
\* with the no-currencies message and never read the file, whether or not
\* it exists.
C8_NoCurrenciesIs404BeforeRead ==
    (out.op \in {"get_exchange_rates", "analyze_data"} /\ out.columns = <<>>)
        => /\ out.status = 404
           /\ out.message = MsgNoCurrencies
           /\ ~out.read

\* No currencies asked for and no file to read: 404, not 500.
C8_Witness ==
    /\ out.op = "analyze_data"
    /\ out.columns = <<>>
    /\ out.status = 404
    /\ ~file.exists

\* v is a / b to four decimals: the nearest multiple of 0.0001, the even
\* one of two equally near.
Nearest4(v, a, b) ==
    LET twice == 2 * (v * b - a * Scale)
    IN /\ v >= 0
       /\ twice <= b
       /\ -twice <= b
       /\ (twice = b \/ -twice = b) => v % 2 = 0

CrossRate(v, a, b) ==
    IF a < 0 \/ b < 0 THEN v = NaN
    ELSE IF b = 0 THEN v \in {NaN, Inf}
    ELSE Nearest4(v, a, b)

\* C9: in every built table and every row, EUR/USD and CHF/USD are the
\* ratios to USD/PLN rounded to four decimals where both rates are there,
\* missing where one is not, and undefined for a zero USD/PLN; building
\* from three non-empty series raises nothing.
C9_CrossRates ==
    out.op \in CycleOps =>
        /\ out.df.exists =>
              \A i \in 1..Len(out.df.rows) :
                  /\ CrossRate(out.df.rows[i]["EUR/USD"], out.df.rows[i]["EUR/PLN"],
                               out.df.rows[i]["USD/PLN"])
                  /\ CrossRate(out.df.rows[i]["CHF/USD"], out.df.rows[i]["CHF/PLN"],
                               out.df.rows[i]["USD/PLN"])
        /\ (/\ out.self.made
            /\ DOMAIN out.self.exchange_rates = Keys
            /\ \A k \in Keys : out.self.exchange_rates[k] # <<>>)
              => (out.raised = "" /\ out.df.exists)

\* 2 / 3 rounded up to 0.6667 in a row without a CHF rate.
C9_Witness ==
    /\ out.op = "save_rates"
    /\ out.df.exists
    /\ \E i \in 1..Len(out.df.rows) :
          /\ out.df.rows[i]["EUR/PLN"] = 2 * Scale
          /\ out.df.rows[i]["USD/PLN"] = 3 * Scale
          /\ out.df.rows[i]["EUR/USD"] = 6667
          /\ out.df.rows[i]["CHF/PLN"] = NaN
          /\ out.df.rows[i]["CHF/USD"] = NaN

\* C10: for days_to_start > days_to_end >= 0 the built table has
\* days_to_start - days_to_end rows, one for each day from
\* now - (days_to_start - 1) through now - days_to_end and none twice, so
\* none for now - days_to_start, the first day of the fetch window.
C10_DateAxis ==
    (/\ out.op \in CycleOps
     /\ out.df.exists
     /\ out.self.days_to_start > out.self.days_to_end
     /\ out.self.days_to_end >= 0)
        => /\ Len(out.df.rows) = out.self.days_to_start - out.self.days_to_end
           /\ DateSet(out.df) = (Now - (out.self.days_to_start - 1))..(Now - out.self.days_to_end)
           /\ Cardinality(DateSet(out.df)) = Len(out.df.rows)
           /\ Now - out.self.days_to_start \notin DateSet(out.df)

\* A table of two rows built from a map holding an observation of the
\* first day of the fetch window.
C10_Witness ==
    /\ out.op = "save_rates"
    /\ out.df.exists
    /\ out.self.days_to_start - out.self.days_to_end >= 2
    /\ \E k \in DOMAIN out.self.exchange_rates :
          \E i \in 1..Len(out.self.exchange_rates[k]) :
              out.self.exchange_rates[k][i].effectiveDate = Now - out.self.days_to_start

====
